---- MODULE Spec2Model ----
(***************************************************************************)
(* Model of the two pipelines of the ecommerce-skills scripts:             *)
(*   - export-products: paginated Shopify export (shopify, fetchAllPages,  *)
(*     run), one JSON line per product on stdout;                          *)
(*   - generate-descriptions: stdin JSONL reader, eligibility filter,      *)
(*     batcher and generation client.                                      *)
(* The two scripts are separate processes and share no state: SpecExport   *)
(* runs the exporter, SpecGen runs the generator.                          *)
(***************************************************************************)
EXTENDS Integers, Sequences, FiniteSets, TLC

VARIABLES
    \* ---- export-products ----
    env,        \* the environment variables that are set to a non-empty value
    xpc,        \* position of run(): boot, page, subs, vmf, done, exit
    f,          \* per caller: the shopify call in progress and its pagination loop
    edges,      \* edges of the current product page not yet resolved
    cur,        \* the product being resolved (for-loop variable), or NoNode
    pageInfo,   \* pageInfo of the current product page
    total,      \* products exported so far
    stdout,     \* lines written with console.log
    errLines,   \* lines written with error()
    xlog,       \* the progress messages written with log() and success()
    exitCode,   \* -1 while running, then the process exit code
    \* ---- generate-descriptions ----
    overwrite,  \* the --overwrite flag
    input,      \* the bytes of standard input
    pos,        \* bytes the reader has delivered so far
    buffer,     \* carry-over of the read loop
    gpc,        \* position of run(): read, join, done, exit
    batch,      \* products collected for the next batch
    gtotal,     \* total: products selected for generation
    skipped,    \* products skipped
    completed,  \* products whose descriptions were written
    totalCost,  \* summed cost of the finished batches
    totalInput, \* summed input tokens of the finished batches
    totalOutput, \* summed output tokens of the finished batches
    pending,    \* the dispatched processBatch calls, in dispatch order
    gstdout,    \* lines written with console.log
    gerrLines,  \* lines written with error()
    gstderr,    \* the errors reported on the error stream, and by whom
    glog,       \* the progress messages written with log() and success()
    gexitCode,  \* -1 while running, then the process exit code
    \* ---- storefront-query and the OCAPI query ----
    argv,         \* the --name=value flags on the command line
    variablesArg, \* the value of --variables: none, valid or invalid JSON
    storefront,   \* the storefront-query process
    ocapi         \* the OCAPI query process

xvars ==
    <<env, xpc, f, edges, cur, pageInfo, total, stdout, errLines, xlog, exitCode>>

gvars ==
    <<overwrite, input, pos, buffer, gpc, batch, gtotal, skipped, completed,
      totalCost, totalInput, totalOutput, pending, gstdout, gerrLines, gstderr,
      glog, gexitCode>>

qvars == <<argv, variablesArg, storefront, ocapi>>

vars == <<xvars, gvars, qvars>>

----------------------------------------------------------------------------
(* Bounds of the model *)

\* products in the remote catalogue
NumProducts == 3
\* largest number of nodes the server puts in one page
MaxPage == 2
\* variants of the richest product (one concurrent metafield fetch each)
MaxVariants == 2
\* records on standard input
MaxRecords == 25
\* largest number of bytes one reader.read() delivers
MaxChunk == 5

----------------------------------------------------------------------------
(* The remote fixture: what the Shopify API holds *)

Min(a, b) == IF a < b THEN a ELSE b

CeilDiv(a, b) == (a + b - 1) \div b

\* cursor: null, or an opaque token the server decodes to a position
Null == <<>>
Cursor(n) == <<"cursor", n * 7 + 3>>
CursorPos(c) == IF c = Null THEN 0 ELSE (c[2] - 3) \div 7

Node(kind, id) == [kind |-> kind, id |-> id]
NoNode == Node("none", 0)

VariantCount(p) == CASE p % 3 = 1 -> MaxVariants [] p % 3 = 2 -> 1 [] OTHER -> 0
MediaCount(p) == CASE p % 3 = 1 -> 1 [] p % 3 = 2 -> 2 [] OTHER -> 0
\* metafields of a product (id < 10) or of a variant (id = 10 * product + index)
MetafieldCount(id) ==
    IF id >= 10 THEN (id % 10) % 3
    ELSE CASE id % 3 = 1 -> 2 [] id % 3 = 2 -> 1 [] OTHER -> 0

\* the full linear traversal of a remote collection
Collection(kind, owner) ==
    CASE kind = "products" -> [i \in 1..NumProducts |-> Node("product", i)]
      [] kind = "variants" -> [i \in 1..VariantCount(owner) |-> Node("variant", 10 * owner + i)]
      [] kind = "media" -> [i \in 1..MediaCount(owner) |-> Node("media", 100 * owner + i)]
      [] OTHER -> [i \in 1..MetafieldCount(owner) |-> Node("metafield", 100 * owner + i)]

\* the connection the server returns for a cursor when it serves k nodes a page
ServerPage(coll, cursor, k) ==
    LET from == CursorPos(cursor)
        to == Min(from + k, Len(coll))
    IN [nodes |-> SubSeq(coll, from + 1, to),
        hasNextPage |-> to < Len(coll),
        endCursor |-> IF to > from THEN Cursor(to) ELSE Null]

NoPage == [nodes |-> <<>>, hasNextPage |-> FALSE, endCursor |-> Null]

\* extensions.cost of a response: absent, or the throttle status
NoCost == [present |-> FALSE, currentlyAvailable |-> 0, requestedQueryCost |-> 0, restoreRate |-> 1]
Cost(avail, req, rate) ==
    [present |-> TRUE, currentlyAvailable |-> avail, requestedQueryCost |-> req, restoreRate |-> rate]
CostChoices == {NoCost, Cost(50, 10, 5), Cost(100, 10, 5), Cost(99, 11, 5)}

----------------------------------------------------------------------------
(* export-products: shopify(), fetchAllPages(), run() *)

RequiredEnv == {"SHOPIFY_ADMIN_API_TOKEN", "SHOPIFY_API_VERSION", "SHOPIFY_STORE_DOMAIN"}

\* bug: && for ||, the run is refused only when all three are missing
EnvOkAny == RequiredEnv \cap env # {}

\* !apiToken || !apiVersion || !storeDomain is false
EnvOk == RequiredEnv \subseteq env

\* every variable one of the scripts reads from the environment
AllEnv ==
    RequiredEnv \cup {"SHOPIFY_STOREFRONT_ACCESS_TOKEN", "SFCC_INSTANCE_HOSTNAME",
                      "SFCC_CLIENT_ID", "SFCC_OCAPI_VERSION"}

\* a query script: position (boot, resolve, fetch, text, json, done, exit,
\* off), requests issued, exit code (-1 while running), lines on standard
\* output, lines written with error()
QScript(pc) == [pc |-> pc, requests |-> 0, exitCode |-> -1, out |-> 0, err |-> 0]

\* the query scripts are not part of an export or generation run
QOff ==
    /\ argv = {}
    /\ variablesArg = "none"
    /\ storefront = QScript("off")
    /\ ocapi = QScript("off")

\* the throttle floor of shopify()
ThrottleFloor == 100

Products == <<"products", 0>>
Variants == <<"variants", 0>>
Media == <<"media", 0>>
Metafields == <<"metafields", 0>>
Vmf(j) == <<"vmf", j>>
Subs == {Variants, Media, Metafields}
VmfCallers == {Vmf(j) : j \in 1..MaxVariants}
Callers == {Products} \cup Subs \cup VmfCallers

\* the query a caller sends: which remote collection it pages through
KindOf(c) == IF c[1] = "vmf" THEN "metafields" ELSE c[1]

\* st: idle, fetch (awaiting fetch), text (awaiting response.text()),
\* json (awaiting response.json()), wait (throttle timer), done (loop returned).
\* cursor is the loop's cursor variable, sent verbatim in each request.
\* nreq, pages, prevEnd, prevMore observe the loop: requests issued and pages
\* consumed so far, and the pageInfo of the last response it consumed.
Idle ==
    [st |-> "idle", owner |-> 0, cursor |-> Null, items |-> <<>>, nreq |-> 0,
     pages |-> 0, prevEnd |-> Null, prevMore |-> FALSE, wait |-> 0, data |-> NoPage,
     cost |-> NoCost]

\* fetchAllPages entry: items = [], cursor = null, first request issued
Begin(owner) == [Idle EXCEPT !.st = "fetch", !.owner = owner, !.nreq = 1]

InFlight(c) == f[c].st \in {"fetch", "text", "json", "wait"}

\* bug: the throttle status is never acted on, shopify returns at once
ThrottledNever(cost) == FALSE

Throttled(cost) == cost.present /\ cost.currentlyAvailable < ThrottleFloor

\* bug: the quotient is rounded down
ThrottleWaitFloor(cost) == (cost.requestedQueryCost \div cost.restoreRate) * 1000

ThrottleWait(cost) == CeilDiv(cost.requestedQueryCost, cost.restoreRate) * 1000

\* bug: items = connection.edges.map(...), the earlier pages are lost
AccumulateLast(items, conn) == conn.nodes

\* items.push(...connection.edges.map((e) => e.node))
Accumulate(items, conn) == items \o conn.nodes

\* bug: the loop never looks at hasNextPage
MoreAlways(conn) == TRUE

\* if (!connection.pageInfo.hasNextPage) break
More(conn) == conn.hasNextPage

\* bug: the cursor is never advanced
NextCursorStale(cursor, conn) == cursor

\* cursor = connection.pageInfo.endCursor
NextCursor(cursor, conn) == conn.endCursor

\* one turn of the while loop of fetchAllPages, after shopify() returned
LoopStep(fr, conn) ==
    IF More(conn)
    THEN [fr EXCEPT !.st = "fetch", !.items = Accumulate(fr.items, conn),
                    !.cursor = NextCursor(fr.cursor, conn), !.nreq = @ + 1,
                    !.pages = @ + 1, !.prevEnd = conn.endCursor,
                    !.prevMore = conn.hasNextPage, !.wait = 0, !.data = NoPage]
    ELSE [fr EXCEPT !.st = "done", !.items = Accumulate(fr.items, conn),
                    !.pages = @ + 1, !.prevEnd = conn.endCursor,
                    !.prevMore = conn.hasNextPage, !.wait = 0, !.data = NoPage]

\* the state of run() as one record, so that its synchronous continuations compose
Machine ==
    [f |-> f, xpc |-> xpc, edges |-> edges, cur |-> cur, pageInfo |-> pageInfo,
     total |-> total, stdout |-> stdout, log |-> xlog]

Apply(m) ==
    /\ f' = m.f
    /\ xpc' = m.xpc
    /\ edges' = m.edges
    /\ cur' = m.cur
    /\ pageInfo' = m.pageInfo
    /\ total' = m.total
    /\ stdout' = m.stdout
    /\ xlog' = m.log

\* end of the for loop over a page: stop, or request the next product page
EndOfPage(m) ==
    IF ~More(m.pageInfo)
    THEN [m EXCEPT !.xpc = "done", !.cur = NoNode,
                   !.log = @ \cup {"products exported", "done"}]
    ELSE [m EXCEPT !.xpc = "page", !.cur = NoNode,
                   !.log = @ \cup {"products exported"},
                   !.f[Products] = [@ EXCEPT !.st = "fetch",
                                             !.cursor = NextCursor(@, m.pageInfo),
                                             !.nreq = @ + 1]]

\* bug: the next product page is requested while the page is still being resolved
StartProductPrefetch(m) ==
    [m EXCEPT !.xpc = "subs", !.cur = Head(m.edges), !.edges = Tail(m.edges),
              !.f = [c \in Callers |->
                        IF c \in Subs THEN Begin(Head(m.edges).id)
                        ELSE IF c \in VmfCallers THEN Idle
                        ELSE IF m.pageInfo.hasNextPage /\ m.f[c].st = "idle"
                        THEN [m.f[c] EXCEPT !.st = "fetch", !.cursor = m.pageInfo.endCursor,
                                            !.nreq = @ + 1]
                        ELSE m.f[c]]]

\* bug: the page's edges are taken from the back (pop instead of iteration order)
StartProductLast(m) ==
    [m EXCEPT !.xpc = "subs", !.cur = m.edges[Len(m.edges)],
              !.edges = SubSeq(m.edges, 1, Len(m.edges) - 1),
              !.f = [c \in Callers |->
                        IF c \in Subs THEN Begin(m.edges[Len(m.edges)].id)
                        ELSE IF c \in VmfCallers THEN Idle
                        ELSE m.f[c]]]

\* bug: the sub-collections are fetched one after another, only the variants
\* loop is started at the turn of the for loop
StartProductSequential(m) ==
    [m EXCEPT !.xpc = "subs", !.cur = Head(m.edges), !.edges = Tail(m.edges),
              !.f = [c \in Callers |->
                        IF c = Variants THEN Begin(Head(m.edges).id)
                        ELSE IF c \in Subs \cup VmfCallers THEN Idle
                        ELSE m.f[c]]]

\* next turn of the for loop: the three sub-collection loops start together
StartProduct(m) ==
    [m EXCEPT !.xpc = "subs", !.cur = Head(m.edges), !.edges = Tail(m.edges),
              !.f = [c \in Callers |->
                        IF c \in Subs THEN Begin(Head(m.edges).id)
                        ELSE IF c \in VmfCallers THEN Idle
                        ELSE m.f[c]]]

NextEdge(m) == IF m.edges = <<>> THEN EndOfPage(m) ELSE StartProduct(m)

\* bug: a collection that came back empty is left out of the object
EnrichedSparse(m) ==
    LET out == [product |-> m.cur,
                metafields |-> m.f[Metafields].items,
                variants |-> [j \in 1..Len(m.f[Variants].items) |->
                                 [variant |-> m.f[Variants].items[j],
                                  metafields |-> m.f[Vmf(j)].items]],
                media |-> m.f[Media].items]
        keys == {"product"} \cup {k \in {"metafields", "variants", "media"} : out[k] # <<>>}
    IN [k \in keys |-> out[k]]

\* const out = { ...product, metafields, variants: variantsWithMetafields, media }
Enriched(m) ==
    [product |-> m.cur,
     metafields |-> m.f[Metafields].items,
     variants |-> [j \in 1..Len(m.f[Variants].items) |->
                      [variant |-> m.f[Variants].items[j],
                       metafields |-> m.f[Vmf(j)].items]],
     media |-> m.f[Media].items]

\* console.log(JSON.stringify(out)); total++
Emit(m) ==
    NextEdge([m EXCEPT !.stdout = Append(@, Enriched(m)), !.total = @ + 1])

\* bug: the record is written without waiting for the variants' metafields
AfterSubsNoVmf(m) == Emit(m)

\* second Promise.all: one fetchMetafields per variant, all started together
AfterSubs(m) ==
    LET vs == m.f[Variants].items IN
    IF Len(vs) = 0 THEN Emit(m)
    ELSE [m EXCEPT !.xpc = "vmf",
                   !.f = [c \in Callers |->
                             IF c \in VmfCallers /\ c[2] <= Len(vs)
                             THEN Begin(vs[c[2]].id)
                             ELSE m.f[c]]]

\* bug: Promise.allSettled, a loop whose request failed counts as returned
JoinSettled(m) ==
    IF m.xpc = "subs" /\ \A c \in Subs : m.f[c].st \in {"done", "text"}
    THEN AfterSubs(m)
    ELSE IF m.xpc = "vmf"
            /\ \A j \in 1..Len(m.f[Variants].items) : m.f[Vmf(j)].st \in {"done", "text"}
    THEN Emit(m)
    ELSE m

\* a Promise.all resolves once every loop it joins has returned
Join(m) ==
    IF m.xpc = "subs" /\ \A c \in Subs : m.f[c].st = "done"
    THEN AfterSubs(m)
    ELSE IF m.xpc = "vmf"
            /\ \A j \in 1..Len(m.f[Variants].items) : m.f[Vmf(j)].st = "done"
    THEN Emit(m)
    ELSE m

\* shopify() returns json.data to its caller
Return(m, c, conn) ==
    IF c = Products
    THEN NextEdge([m EXCEPT !.edges = conn.nodes,
                            !.pageInfo = [hasNextPage |-> conn.hasNextPage,
                                          endCursor |-> conn.endCursor],
                            !.f[c] = [@ EXCEPT !.st = "idle", !.pages = @ + 1,
                                               !.prevEnd = conn.endCursor,
                                               !.prevMore = conn.hasNextPage,
                                               !.wait = 0, !.data = NoPage]])
    ELSE Join([m EXCEPT !.f[c] = LoopStep(@, conn)])

\* a throw inside run(): run().catch prints the message and exits 1
\* bug: the message is written with console.log
FailOnStdout ==
    /\ xpc' = "exit"
    /\ exitCode' = 1
    /\ stdout' = Append(stdout, [error |-> "message"])
    /\ UNCHANGED <<env, f, edges, cur, pageInfo, total, errLines, xlog, gvars, qvars>>

Fail ==
    /\ xpc' = "exit"
    /\ exitCode' = 1
    /\ errLines' = errLines + 1
    /\ UNCHANGED <<env, f, edges, cur, pageInfo, total, stdout, xlog, gvars, qvars>>

\* the generator is not part of an export run
GOff ==
    /\ overwrite = FALSE
    /\ input = <<>>
    /\ pos = 0
    /\ buffer = <<>>
    /\ gpc = "off"
    /\ batch = <<>>
    /\ gtotal = 0
    /\ skipped = 0
    /\ completed = 0
    /\ totalCost = 0
    /\ totalInput = 0
    /\ totalOutput = 0
    /\ pending = <<>>
    /\ gstdout = <<>>
    /\ gerrLines = 0
    /\ gstderr = <<>>
    /\ glog = {}
    /\ gexitCode = -1

\* the exporter before its first statement
XInit ==
    /\ xpc = "boot"
    /\ f = [c \in Callers |-> Idle]
    /\ edges = <<>>
    /\ cur = NoNode
    /\ pageInfo = [hasNextPage |-> FALSE, endCursor |-> Null]
    /\ total = 0
    /\ stdout = <<>>
    /\ errLines = 0
    /\ xlog = {}
    /\ exitCode = -1

InitExport ==
    /\ GOff
    /\ QOff
    /\ env \in SUBSET RequiredEnv
    /\ XInit

\* module top level: validate the environment, then run() issues the first request
XBoot ==
    /\ xpc = "boot"
    /\ IF ~EnvOk
       THEN Fail
       ELSE /\ xpc' = "page"
            /\ f' = [f EXCEPT ![Products] = Begin(0)]
            /\ xlog' = xlog \cup {"Starting product export"}
            /\ UNCHANGED <<env, edges, cur, pageInfo, total, stdout, errLines, exitCode,
                           gvars, qvars>>

XRunning == xpc \in {"page", "subs", "vmf"}

\* fetch() resolves with the status line of the response
Respond(c) ==
    /\ XRunning
    /\ f[c].st = "fetch"
    /\ \/ f' = [f EXCEPT ![c].st = "text"]
       \/ \E cost \in CostChoices :
             f' = [f EXCEPT ![c].st = "json", ![c].cost = cost]
    /\ UNCHANGED <<env, xpc, edges, cur, pageInfo, total, stdout, errLines, xlog,
                   exitCode, gvars, qvars>>

\* response.text() resolves: throw new Error(`Shopify API ...`)
TextDone(c) ==
    /\ XRunning
    /\ f[c].st = "text"
    /\ Fail

\* response.json() resolves with an errors array: throw new Error(`GraphQL: ...`)
JsonErrors(c) ==
    /\ XRunning
    /\ f[c].st = "json"
    /\ Fail

\* the process ends by itself when run() resolves
Finish(m) ==
    /\ Apply(m)
    /\ exitCode' = IF m.xpc = "done" THEN 0 ELSE exitCode
    /\ UNCHANGED <<env, errLines, gvars, qvars>>

\* run() with the response of caller c consumed
Consumed(c) == [Machine EXCEPT !.f[c].cost = NoCost]

\* response.json() resolves with data: throttle check, then return
JsonData(c) ==
    /\ XRunning
    /\ f[c].st = "json"
    /\ \E k \in 1..MaxPage :
          LET conn == ServerPage(Collection(KindOf(c), f[c].owner), f[c].cursor, k) IN
          IF Throttled(f[c].cost)
          THEN /\ f' = [f EXCEPT ![c].st = "wait", ![c].wait = ThrottleWait(f[c].cost),
                                 ![c].data = conn]
               /\ xlog' = xlog \cup {"Throttled"}
               /\ UNCHANGED <<env, xpc, edges, cur, pageInfo, total, stdout, errLines,
                              exitCode, gvars, qvars>>
          ELSE Finish(Return(Consumed(c), c, conn))

\* the throttle timer fires
WaitDone(c) ==
    /\ XRunning
    /\ f[c].st = "wait"
    /\ Finish(Return(Consumed(c), c, f[c].data))

NextExport ==
    \/ XBoot
    \/ \E c \in Callers : Respond(c)
    \/ \E c \in Callers : TextDone(c)
    \/ \E c \in Callers : JsonErrors(c)
    \/ \E c \in Callers : JsonData(c)
    \/ \E c \in Callers : WaitDone(c)

SpecExport == InitExport /\ [][NextExport]_vars

\* the event loop delivers every pending response and timer
FairSpecExport == SpecExport /\ WF_vars(NextExport)

----------------------------------------------------------------------------
(* Properties of export-products *)

Loops == Callers \ {Products}

\* the step issues a request for caller c
Issues(c) == f[c].st # "fetch" /\ f'[c].st = "fetch"

\* C1: when fetchAllPages returns, its items are exactly the full linear
\* traversal of the remote collection, in order, whatever page sizes the
\* server chose: nothing duplicated, nothing dropped.
C1_FetchAllPagesComplete ==
    \A c \in Loops :
        f[c].st = "done" => f[c].items = Collection(KindOf(c), f[c].owner)

\* a loop that returned a collection it needed several pages for
C1_Witness ==
    \E c \in Loops : f[c].st = "done" /\ f[c].pages >= 2 /\ Len(f[c].items) >= 2

\* C2: in fetchAllPages and in the product loop of run, the first request
\* carries cursor null and every later request carries exactly the endCursor
\* of the response that loop consumed just before.
C2_CursorThreaded ==
    \A c \in Callers :
        InFlight(c) =>
            f[c].cursor = IF f[c].nreq = 1 THEN Null ELSE f[c].prevEnd

\* a sub-collection loop on a later request while the product loop is on a later page
C2_Witness ==
    /\ f[Products].nreq >= 2
    /\ \E c \in Subs : f[c].st = "fetch" /\ f[c].nreq >= 2 /\ f[c].cursor # Null

C3_Safe ==
    \A c \in Callers :
        /\ (InFlight(c) /\ f[c].nreq > 1) => f[c].prevMore
        /\ InFlight(c) => f[c].nreq = f[c].pages + 1
        /\ (f[c].st = "done" \/ (c = Products /\ xpc = "done")) =>
              (~f[c].prevMore /\ f[c].nreq = f[c].pages)

\* C3: a loop issues a further request exactly when the last response had
\* hasNextPage true and stops on the first response with hasNextPage false,
\* so after N pages it has issued exactly N requests; and the run terminates.
C3_StopsOnLastPage == []C3_Safe /\ <>(xpc \in {"done", "exit"})

\* the product loop finished after three pages
C3_Witness == xpc = "done" /\ f[Products].pages = 3 /\ f[Products].nreq = 3

\* a response with a non-success status has been received
FailureSeen == \E c \in Callers : f[c].st = "text"

\* C4 as stated: after a failing response no further request is issued, no
\* further line is written, and the process exits with code 1.
C4_AbortsImmediately ==
    [][FailureSeen =>
          /\ \A c \in Callers : ~Issues(c)
          /\ stdout' = stdout
          /\ (xpc' = "exit" => exitCode' = 1)]_vars

\* C4 amended: after a failing response no further line is written, the loop
\* that received it issues no further request, the run cannot complete, and
\* the throw ends the process with exit code 1 and one error line; only
\* sibling loops may still issue requests until the throw.
C4_AbortsRun ==
    [][/\ FailureSeen =>
             /\ stdout' = stdout
             /\ xpc' # "done"
             /\ \A c \in Callers : f[c].st = "text" => ~Issues(c)
       /\ xpc' = "exit" =>
             /\ exitCode' = 1
             /\ errLines' = 1
             /\ stdout' = stdout
             /\ \A c \in Callers : ~Issues(c)
       /\ exitCode' = 0 => xpc' = "done"]_vars

\* the run failed on a sub-collection request after a line had been written
C4_Witness ==
    /\ xpc = "exit"
    /\ exitCode = 1
    /\ Len(stdout) >= 1
    /\ \E c \in Loops : f[c].st = "text"

\* the record the remote catalogue holds for product p, fully resolved
FullRecord(p) ==
    [product |-> Node("product", p),
     metafields |-> Collection("metafields", p),
     variants |-> [j \in 1..VariantCount(p) |->
                      [variant |-> Collection("variants", p)[j],
                       metafields |-> Collection("metafields", 10 * p + j)]],
     media |-> Collection("media", p)]

\* C5: every line on stdout is a complete record (all variants, media,
\* metafields and every variant's metafields); the record being resolved has
\* no line yet, so a failed sub-fetch leaves no line for it and the run fails.
C5_NoPartialRecord ==
    /\ \A i \in 1..Len(stdout) : stdout[i] = FullRecord(stdout[i].product.id)
    /\ cur # NoNode => \A i \in 1..Len(stdout) : stdout[i].product # cur
    /\ xpc = "exit" => (exitCode = 1 /\ (cur # NoNode => total = Len(stdout)))

\* a record with two variants and their metafields has been written
C5_Witness ==
    \E i \in 1..Len(stdout) :
        /\ Len(stdout[i].variants) = MaxVariants
        /\ \E j \in 1..MaxVariants : Len(stdout[i].variants[j].metafields) >= 2

\* C6: a product page request is outstanding only when every record of the
\* pages before it has been resolved and written and no sub-resource fetch is
\* running.
C6_PagesSequential ==
    InFlight(Products) =>
        /\ edges = <<>>
        /\ cur = NoNode
        /\ \A c \in Loops : ~InFlight(c)
        /\ Len(stdout) = CursorPos(f[Products].cursor)
        /\ total = Len(stdout)

\* the request for a later page is outstanding
C6_Witness == f[Products].st = "fetch" /\ f[Products].nreq >= 2 /\ Len(stdout) >= 2

\* C7: stdout holds the records in source order: line i is the i-th product
\* of the catalogue, under every page split and every completion order.
C7_SourceOrder ==
    \A i \in 1..Len(stdout) : stdout[i].product = Collection("products", 0)[i]

\* all products written, the first page having held two of them
C7_Witness ==
    /\ Len(stdout) = NumProducts
    /\ xpc = "done"
    /\ f[Products].pages < NumProducts

----------------------------------------------------------------------------
(* generate-descriptions: the text on standard input *)

\* character codes: "\n", " ", "{", "}"; a code of Payload or more stands for
\* the body of one JSON object and encodes the product's id and content
NL == 10
SP == 32
LBrace == 123
RBrace == 125
Payload == 1000

Whitespace == {9, NL, 13, SP}

\* a string value, or undefined/null
Str(chars) == [defined |-> TRUE, chars |-> chars]
Undefined == [defined |-> FALSE, chars |-> <<>>]
Text == <<116>>

Mf(key, value) == [key |-> key, value |-> value]

Kinds == 1..9

\* product.description of the nine kinds of product content
KindDescription(k) ==
    CASE k = 1 -> Str(Text)
      [] k = 2 -> Str(<<SP>> \o Text \o <<SP>>)
      [] k = 3 -> Str(Text)
      [] k = 4 -> Str(<<SP, SP>>)
      [] k = 5 -> Undefined
      [] k = 6 -> Str(Text)
      [] k = 7 -> Str(Text)
      [] k = 8 -> Str(<<>>)
      [] OTHER -> Str(Text)

\* product.metafields of the nine kinds (kind 6 has no metafields property)
KindHasMetafields(k) == k # 6

KindMetafields(k) ==
    CASE k = 1 -> <<Mf("longDescription", Str(Text))>>
      [] k = 2 -> <<Mf("material", Str(Text)), Mf("longDescription", Str(<<SP>> \o Text \o <<SP>>))>>
      [] k = 3 -> <<Mf("longDescription", Str(<<SP, SP>>))>>
      [] k = 4 -> <<Mf("longDescription", Str(Text))>>
      [] k = 5 -> <<Mf("longDescription", Str(Text)), Mf("material", Str(Text))>>
      [] k = 6 -> <<>>
      [] k = 7 -> <<Mf("material", Str(Text))>>
      [] k = 8 -> <<>>
      [] OTHER -> <<Mf("longDescription", Str(<<>>))>>

\* the kind of the i-th record of the four input patterns: all eligible, all
\* already described, every kind in turn, every fifth record eligible
Seeds == 1..4
KindAt(seed, i) ==
    CASE seed = 1 -> 3 + ((i - 1) % 7)
      [] seed = 2 -> 1 + (i % 2)
      [] seed = 3 -> 1 + ((i - 1) % Cardinality(Kinds))
      [] OTHER -> IF i % 5 = 0 THEN 3 ELSE 1

PayloadOf(i, k) == Payload + 10 * i + k
IdOf(ch) == (ch - Payload) \div 10
KindOfPayload(ch) == (ch - Payload) % 10

\* the layouts of the input text
Layouts == {"plain", "noeol", "spaced", "bad"}

RecordLine(i, k, layout) ==
    IF layout = "spaced"
    THEN <<SP, LBrace, PayloadOf(i, k), RBrace, SP, NL, SP, NL>>
    ELSE <<LBrace, PayloadOf(i, k), RBrace, NL>>

RECURSIVE RecordLines(_, _, _, _)
RecordLines(i, n, seed, layout) ==
    IF i > n THEN <<>>
    ELSE RecordLine(i, KindAt(seed, i), layout)
         \o (IF layout = "bad" /\ i = (n + 1) \div 2 THEN <<LBrace, LBrace, NL>> ELSE <<>>)
         \o RecordLines(i + 1, n, seed, layout)

\* n records; "noeol" leaves the last line without its newline
InputText(n, seed, layout) ==
    LET t == RecordLines(1, n, seed, layout) IN
    IF layout = "noeol" /\ n > 0 THEN SubSeq(t, 1, Len(t) - 1) ELSE t

----------------------------------------------------------------------------
(* generate-descriptions: needsGeneration, the read loop, processBatch *)

BATCH_SIZE == 20

RECURSIVE TrimStart(_)
TrimStart(s) ==
    IF s # <<>> /\ Head(s) \in Whitespace THEN TrimStart(Tail(s)) ELSE s

RECURSIVE TrimEnd(_)
TrimEnd(s) ==
    IF s # <<>> /\ s[Len(s)] \in Whitespace THEN TrimEnd(SubSeq(s, 1, Len(s) - 1)) ELSE s

\* String.prototype.trim
Trim(s) == TrimEnd(TrimStart(s))

\* buffer.indexOf("\n"), counted from 1; 0 when there is none
RECURSIVE IndexOfNL(_, _)
IndexOfNL(s, i) ==
    IF i > Len(s) THEN 0 ELSE IF s[i] = NL THEN i ELSE IndexOfNL(s, i + 1)

\* JSON.parse succeeds on one object and throws on anything else
ValidJson(line) ==
    Len(line) = 3 /\ line[1] = LBrace /\ line[2] >= Payload /\ line[3] = RBrace

JsonParse(line) == [id |-> IdOf(line[2]), kind |-> KindOfPayload(line[2])]

\* the fields of a parsed product
Description(product) == KindDescription(product.kind)
MetafieldsOf(product) ==
    IF KindHasMetafields(product.kind) THEN KindMetafields(product.kind) ELSE <<>>
Handle(product) == <<"handle", product.id>>
Title(product) == <<"title", product.id>>

\* const mf = {}; for (const m of product.metafields || []) mf[m.key] = m.value
RECURSIVE MfLookup(_, _)
MfLookup(mfs, key) ==
    IF mfs = <<>> THEN Undefined
    ELSE IF mfs[Len(mfs)].key = key THEN mfs[Len(mfs)].value
    ELSE MfLookup(SubSeq(mfs, 1, Len(mfs) - 1), key)

\* v && v.trim().length > 0
HasText(v) == v.defined /\ v.chars # <<>> /\ Len(Trim(v.chars)) > 0

\* bug: a product is skipped as soon as one of the two texts is there
needsGenerationEither(product) ==
    IF overwrite THEN TRUE
    ELSE ~HasText(Description(product))
         /\ ~HasText(MfLookup(MetafieldsOf(product), "longDescription"))

needsGeneration(product) ==
    IF overwrite THEN TRUE
    ELSE ~HasText(Description(product))
         \/ ~HasText(MfLookup(MetafieldsOf(product), "longDescription"))

\* result subtypes of the generation service other than success
Subtypes == {"error_during_execution", "error_max_turns"}

\* the messages of the errors a run can throw: generateBatch on a non-success
\* subtype, processBatch reading .description of a missing result entry,
\* JSON.parse on a malformed line
\* bug: the message does not carry the subtype of the result
AIErrorBare(subtype) == <<"AI error", "">>

AIError(subtype) == <<"AI error", subtype>>
TypeErrorMsg == <<"TypeError: undefined is not an object">>
SyntaxErrorMsg == <<"SyntaxError: JSON Parse error">>

\* one report on the error stream: by error() of run().catch, or by the
\* runtime for a rejection nothing handles
Report(by, msg) == [by |-> by, msg |-> msg]

\* a dispatched processBatch(products): running, resolved or rejected;
\* subtype is the subtype of the result message of its call ("" before it
\* arrives), received the length of the result array (-1 if there is none),
\* err the message it rejected with
Task(products) ==
    [products |-> products, st |-> "running", subtype |-> "", received |-> -1,
     err |-> <<>>]

\* the read loop's variables as one record
Reader ==
    [buffer |-> buffer, batch |-> batch, total |-> gtotal, skipped |-> skipped,
     pending |-> pending, thrown |-> FALSE]

\* bug: a skipped product is counted in total as well
SkipCounted(g) == [g EXCEPT !.skipped = @ + 1, !.total = @ + 1]

\* if (!needsGeneration(product)) { skipped++; continue; }
Skip(g) == [g EXCEPT !.skipped = @ + 1]

\* the inner while loop: consume every complete line of the buffer
RECURSIVE Drain(_)
Drain(g) ==
    LET newline == IndexOfNL(g.buffer, 1) IN
    IF newline = 0 THEN g
    ELSE LET line == Trim(SubSeq(g.buffer, 1, newline - 1))
             g1 == [g EXCEPT !.buffer = SubSeq(g.buffer, newline + 1, Len(g.buffer))]
         IN IF line = <<>> THEN Drain(g1)
            ELSE IF ~ValidJson(line) THEN [g1 EXCEPT !.thrown = TRUE]
            ELSE IF ~needsGeneration(JsonParse(line))
            THEN Drain(Skip(g1))
            ELSE LET g2 == [g1 EXCEPT !.batch = Append(@, JsonParse(line)),
                                      !.total = @ + 1]
                 IN IF Len(g2.batch) >= BATCH_SIZE
                    THEN Drain([g2 EXCEPT !.pending = Append(@, Task(g2.batch)),
                                          !.batch = <<>>])
                    ELSE Drain(g2)

\* if (batch.length > 0) pending.push(processBatch(batch))
Flush(g) ==
    IF Len(g.batch) > 0 THEN [g EXCEPT !.pending = Append(@, Task(g.batch))] ELSE g

\* run().catch: print the message, exit 1
GFail(msg) ==
    /\ gpc' = "exit"
    /\ gexitCode' = 1
    /\ gerrLines' = gerrLines + 1
    /\ gstderr' = Append(gstderr, Report("error", msg))

\* the exporter is not part of a generation run
XOff ==
    /\ env = RequiredEnv
    /\ xpc = "off"
    /\ f = [c \in Callers |-> Idle]
    /\ edges = <<>>
    /\ cur = NoNode
    /\ pageInfo = [hasNextPage |-> FALSE, endCursor |-> Null]
    /\ total = 0
    /\ stdout = <<>>
    /\ errLines = 0
    /\ xlog = {}
    /\ exitCode = -1

InitGen ==
    /\ XOff
    /\ QOff
    /\ overwrite \in BOOLEAN
    /\ \E n \in 0..MaxRecords, seed \in Seeds, layout \in Layouts :
          input = InputText(n, seed, layout)
    /\ pos = 0
    /\ buffer = <<>>
    /\ gpc = "read"
    /\ batch = <<>>
    /\ gtotal = 0
    /\ skipped = 0
    /\ completed = 0
    /\ totalCost = 0
    /\ totalInput = 0
    /\ totalOutput = 0
    /\ pending = <<>>
    /\ gstdout = <<>>
    /\ gerrLines = 0
    /\ gstderr = <<>>
    /\ glog = {"Reading products from stdin"}
    /\ gexitCode = -1

\* bug: each batch is awaited where it is dispatched, so the loop reads on
\* only when no generation call is in flight
ReadReadyAwaited ==
    gpc = "read" /\ \A b \in 1..Len(pending) : pending[b].st # "running"

\* run() is at await reader.read(): the loop awaits the reader and nothing
\* else, pending.push(processBatch(batch)) does not await the call
ReadReady == gpc = "read"

\* what a dispatch logs: the read loop its counts, generateBatch its start
DispatchLog(before, after) ==
    IF Len(after) > Len(before) THEN {"dispatching batch", "Starting batch"} ELSE {}

\* bug: the chunk replaces the buffer, the carried-over partial line is lost
DecodeNoCarry(buf, chunk) == chunk

\* buffer += decoder.decode(value, { stream: true })
Decode(buf, chunk) == buf \o chunk

\* reader.read() delivers the next chunk; the complete lines are consumed
GRead ==
    /\ ReadReady
    /\ pos < Len(input)
    /\ \E n \in 1..Min(MaxChunk, Len(input) - pos) :
          LET g == Drain([Reader EXCEPT
                             !.buffer = Decode(@, SubSeq(input, pos + 1, pos + n))])
          IN /\ pos' = pos + n
             /\ buffer' = g.buffer
             /\ batch' = g.batch
             /\ gtotal' = g.total
             /\ skipped' = g.skipped
             /\ pending' = g.pending
             /\ glog' = glog \cup DispatchLog(pending, g.pending)
             /\ IF g.thrown
                THEN GFail(SyntaxErrorMsg)
                ELSE UNCHANGED <<gpc, gexitCode, gerrLines, gstderr>>
    /\ UNCHANGED <<overwrite, input, completed, totalCost, totalInput, totalOutput,
                   gstdout, xvars, qvars>>

\* Promise.all(pending) as seen when run() reaches it or when a batch settles
Joined(tasks) ==
    IF \E b \in 1..Len(tasks) : tasks[b].st = "rejected" THEN "exit"
    ELSE IF \A b \in 1..Len(tasks) : tasks[b].st = "resolved" THEN "done"
    ELSE "join"

\* the reason Promise.all rejects with: of the rejected promises, the one
\* that comes first in the array (at most one is rejected unless they were
\* rejected before the join)
FirstRejected(tasks) ==
    tasks[CHOOSE b \in 1..Len(tasks) :
              /\ tasks[b].st = "rejected"
              /\ \A a \in 1..(b - 1) : tasks[a].st # "rejected"]

\* after the join: the cost line and the success line
SummaryLog(tasks) ==
    IF Joined(tasks) = "done" THEN {"Cost", "descriptions generated"} ELSE {}

Settle(tasks) ==
    /\ gpc' = Joined(tasks)
    /\ gexitCode' = CASE Joined(tasks) = "exit" -> 1
                      [] Joined(tasks) = "done" -> 0
                      [] OTHER -> gexitCode
    /\ gerrLines' = IF Joined(tasks) = "exit" THEN gerrLines + 1 ELSE gerrLines
    /\ gstderr' = IF Joined(tasks) = "exit"
                  THEN Append(gstderr, Report("error", FirstRejected(tasks).err))
                  ELSE gstderr

\* a processBatch promise rejects. Awaited by Promise.all it fails run();
\* before the join nothing handles it: the runtime reports the rejection and
\* either ends the process with code 1 or lets it run on
Rejection(tasks, msg) ==
    IF gpc = "join"
    THEN Settle(tasks)
    ELSE /\ gstderr' = Append(gstderr, Report("runtime", msg))
         /\ gerrLines' = gerrLines
         /\ \/ UNCHANGED <<gpc, gexitCode>>
            \/ gpc' = "exit" /\ gexitCode' = 1

\* reader.read() reports done: flush the last batch, then await Promise.all
GEof ==
    /\ ReadReady
    /\ pos = Len(input)
    /\ pending' = Flush(Reader).pending
    /\ batch' = batch
    /\ glog' = glog \cup (IF Len(batch) > 0 THEN {"Starting batch"} ELSE {})
                   \cup {"products to generate"} \cup SummaryLog(pending')
    /\ Settle(pending')
    /\ UNCHANGED <<overwrite, input, pos, buffer, gtotal, skipped, completed,
                   totalCost, totalInput, totalOutput, gstdout, xvars, qvars>>

\* descriptions[i] of the result of batch b: the i-th entry of the array the
\* generation service returned for that call
ResultEntry(b, i) ==
    [description |-> <<"description", b, i>>,
     longDescription |-> <<"longDescription", b, i>>]

\* bug: the loop walks the products from the last one down
OutLineFromEnd(b, i) ==
    LET product == pending[b].products[Len(pending[b].products) + 1 - i]
        desc == ResultEntry(b, i)
    IN [id |-> product.id, handle |-> Handle(product), title |-> Title(product),
        description |-> desc.description,
        longDescription |-> desc.longDescription]

\* bug: the i-th product is paired with the i-th result entry from the end
OutLineCrossed(b, i) ==
    LET product == pending[b].products[i]
        desc == ResultEntry(b, Len(pending[b].products) + 1 - i)
    IN [id |-> product.id, handle |-> Handle(product), title |-> Title(product),
        description |-> desc.description,
        longDescription |-> desc.longDescription]

\* the line processBatch writes for the i-th product of batch b
OutLine(b, i) ==
    LET product == pending[b].products[i]
        desc == ResultEntry(b, i)
    IN [id |-> product.id, handle |-> Handle(product), title |-> Title(product),
        description |-> desc.description,
        longDescription |-> desc.longDescription]

\* the result message of a batch of n products: total_cost_usd and usage
CostOf(n) == n
InputTokensOf(n) == 3 * n
OutputTokensOf(n) == 2 * n

\* bug: the totals are assigned, not added to
SetUsage(n) ==
    /\ totalCost' = CostOf(n)
    /\ totalInput' = InputTokensOf(n)
    /\ totalOutput' = OutputTokensOf(n)

\* totalCost += cost || 0; totalInput += ...; totalOutput += ...
AddUsage(n) ==
    /\ totalCost' = totalCost + CostOf(n)
    /\ totalInput' = totalInput + InputTokensOf(n)
    /\ totalOutput' = totalOutput + OutputTokensOf(n)

\* the lines an emitter that keeps dispatch order has to write once the calls
\* of tasks have returned up to the first one still running: those of the
\* batches from c on that are through and not yet on standard output
RECURSIVE HeldLines(_, _, _)
HeldLines(tasks, b, c) ==
    IF c > Len(tasks) \/ tasks[c].st = "running" THEN <<>>
    ELSE (IF c # b /\ \E k \in 1..Len(gstdout) : gstdout[k].description[2] = c
          THEN <<>>
          ELSE [i \in 1..Min(tasks[c].received, Len(tasks[c].products)) |->
                   OutLine(c, i)])
         \o HeldLines(tasks, b, c + 1)

\* bug: the lines of a batch are held back until every batch dispatched
\* before it has returned
BatchDoneInDispatchOrder(b) ==
    /\ gpc \in {"read", "join"}
    /\ pending[b].st = "running"
    /\ LET N == Len(pending[b].products) IN
       \E received \in {N - 1, N, N + 1} :
          /\ AddUsage(N)
          /\ IF received < N
             THEN /\ pending' = [pending EXCEPT ![b].st = "rejected",
                                                ![b].subtype = "success",
                                                ![b].received = received,
                                                ![b].err = TypeErrorMsg]
                  /\ completed' = completed
                  /\ glog' = glog
                  /\ Rejection(pending', TypeErrorMsg)
             ELSE /\ pending' = [pending EXCEPT ![b].st = "resolved",
                                                ![b].subtype = "success",
                                                ![b].received = received]
                  /\ completed' = completed + N
                  /\ glog' = glog \cup {"n/total descriptions generated"}
                               \cup (IF gpc = "join" THEN SummaryLog(pending') ELSE {})
                  /\ IF gpc = "join"
                     THEN Settle(pending')
                     ELSE UNCHANGED <<gpc, gexitCode, gerrLines, gstderr>>
          /\ gstdout' = gstdout \o HeldLines(pending', b, 1)
    /\ UNCHANGED <<overwrite, input, pos, buffer, batch, gtotal, skipped, xvars, qvars>>

\* generateBatch returns a result of subtype success whose array has
\* received entries (the schema asks for one per product, the code does not
\* look at the length): processBatch adds the cost and writes one line per
\* product in order; an entry that is missing makes desc.description throw
\* after the lines before it, entries beyond the products are not read
BatchDone(b) ==
    /\ gpc \in {"read", "join"}
    /\ pending[b].st = "running"
    /\ LET N == Len(pending[b].products) IN
       \E received \in {N - 1, N, N + 1} :
          /\ AddUsage(N)
          /\ gstdout' = gstdout \o [i \in 1..Min(received, N) |-> OutLine(b, i)]
          /\ IF received < N
             THEN /\ pending' = [pending EXCEPT ![b].st = "rejected",
                                                ![b].subtype = "success",
                                                ![b].received = received,
                                                ![b].err = TypeErrorMsg]
                  /\ completed' = completed
                  /\ glog' = glog
                  /\ Rejection(pending', TypeErrorMsg)
             ELSE /\ pending' = [pending EXCEPT ![b].st = "resolved",
                                                ![b].subtype = "success",
                                                ![b].received = received]
                  /\ completed' = completed + N
                  /\ glog' = glog \cup {"n/total descriptions generated"}
                               \cup (IF gpc = "join" THEN SummaryLog(pending') ELSE {})
                  /\ IF gpc = "join"
                     THEN Settle(pending')
                     ELSE UNCHANGED <<gpc, gexitCode, gerrLines, gstderr>>
    /\ UNCHANGED <<overwrite, input, pos, buffer, batch, gtotal, skipped, xvars, qvars>>

\* generateBatch throws (the result subtype is not success): the processBatch
\* promise rejects before anything is written
BatchFail(b) ==
    /\ gpc \in {"read", "join"}
    /\ pending[b].st = "running"
    /\ \E subtype \in Subtypes :
          /\ pending' = [pending EXCEPT ![b].st = "rejected",
                                        ![b].subtype = subtype,
                                        ![b].err = AIError(subtype)]
          /\ Rejection(pending', AIError(subtype))
    /\ UNCHANGED <<overwrite, input, pos, buffer, batch, gtotal, skipped, completed,
                   totalCost, totalInput, totalOutput, gstdout, glog, xvars, qvars>>

NextGen ==
    \/ GRead
    \/ GEof
    \/ \E b \in 1..Len(pending) : BatchDone(b)
    \/ \E b \in 1..Len(pending) : BatchFail(b)

SpecGen == InitGen /\ [][NextGen]_vars

----------------------------------------------------------------------------
(* Properties of generate-descriptions *)

\* bytes of the input the read loop has consumed as whole lines
Processed == pos - Len(buffer)

IsRecord(ch) == ch >= Payload

RecordOf(ch) == [id |-> IdOf(ch), kind |-> KindOfPayload(ch)]

\* the Records of text[1..upto], in input order
RECURSIVE RecordsIn(_, _)
RecordsIn(text, upto) ==
    IF upto = 0 THEN <<>>
    ELSE RecordsIn(text, upto - 1)
         \o (IF IsRecord(text[upto]) THEN <<RecordOf(text[upto])>> ELSE <<>>)

\* the text has a character that is not whitespace
NonBlank(v) == v.defined /\ \E i \in 1..Len(v.chars) : v.chars[i] \notin Whitespace

\* the value of the Record's longDescription metafield, if it has one
LongDescriptionOf(product) ==
    LET mfs == MetafieldsOf(product)
        at == {i \in 1..Len(mfs) : mfs[i].key = "longDescription"}
    IN IF at = {} THEN Undefined ELSE mfs[CHOOSE i \in at : TRUE].value

SkipWorthy(product) ==
    NonBlank(Description(product)) /\ NonBlank(LongDescriptionOf(product))

Eligible(product) == overwrite \/ ~SkipWorthy(product)

RECURSIVE Flatten(_)
Flatten(tasks) ==
    IF tasks = <<>> THEN <<>>
    ELSE Flatten(SubSeq(tasks, 1, Len(tasks) - 1)) \o tasks[Len(tasks)].products

\* the Records selected so far: dispatched batches, then the open batch
Selected ==
    IF gpc \in {"join", "done"} THEN Flatten(pending) ELSE Flatten(pending) \o batch

Range(seq) == {seq[i] : i \in 1..Len(seq)}

\* C8: a Record the read loop has consumed is skipped exactly when the
\* override flag is absent and both its description and its longDescription
\* metafield hold a non-whitespace character; with the flag every Record is
\* selected. Equal Records get the same decision wherever they stand in the
\* input.
C8_EligibilityFilter ==
    \A j \in 1..Processed :
        IsRecord(input[j]) =>
            (RecordOf(input[j]) \notin Range(Selected)
                <=> (~overwrite /\ SkipWorthy(RecordOf(input[j]))))

\* without the flag: two Records skipped, and a Record selected whose texts are
\* there but one of them is blank
C8_Witness ==
    /\ ~overwrite
    /\ skipped >= 2
    /\ \E p \in Range(Selected) :
          /\ Description(p).defined /\ Description(p).chars # <<>>
          /\ LongDescriptionOf(p).defined /\ LongDescriptionOf(p).chars # <<>>

BatchSizesOk ==
    \A b \in 1..Len(pending) :
        /\ Len(pending[b].products) \in 1..BATCH_SIZE
        /\ b < Len(pending) => Len(pending[b].products) = BATCH_SIZE

\* C9 as stated: once the input has ended, the dispatched Batches have 1 to 20
\* Records each, all but the last exactly 20, and their concatenation is the
\* sequence of eligible Records of the input, in input order.
C9_BatchesPartitionInput ==
    gpc \in {"join", "done"} =>
        /\ BatchSizesOk
        /\ Flatten(pending) = SelectSeq(RecordsIn(input, Len(input)), Eligible)

\* what the Batcher does guarantee: the same, for the Records whose line the
\* reader delivered (every line that ends with a newline)
C9_BatchesPartitionDelivered ==
    /\ BatchSizesOk
    /\ gpc = "read" => Len(batch) < BATCH_SIZE
    /\ gpc # "exit" => Selected = SelectSeq(RecordsIn(input, Processed), Eligible)

CeilBatches(k) == (k + BATCH_SIZE - 1) \div BATCH_SIZE

\* C10 as stated: without the flag, a run that completes on an input of s
\* skip-worthy and k eligible Records dispatched ceil(k/20) Batches, wrote
\* exactly k lines, none for a skipped Record, and ends with skipped = s and
\* completed = k.
C10_RunCounts ==
    LET recs == RecordsIn(input, Len(input))
        k == Len(SelectSeq(recs, Eligible))
        s == Len(recs) - k
    IN (gpc = "done" /\ ~overwrite) =>
          /\ Len(pending) = CeilBatches(k)
          /\ Len(gstdout) = k
          /\ \A i \in 1..Len(gstdout) :
                \A r \in Range(recs) : r.id = gstdout[i].id => Eligible(r)
          /\ skipped = s
          /\ completed = k

\* the same counts, taken over the Records whose line ends with a newline
C10_RunCountsDelivered ==
    LET recs == RecordsIn(input, Processed)
        k == Len(SelectSeq(recs, Eligible))
        s == Len(recs) - k
    IN (gpc = "done" /\ ~overwrite) =>
          /\ Len(pending) = CeilBatches(k)
          /\ Len(gstdout) = k
          /\ \A i \in 1..Len(gstdout) :
                \A r \in Range(recs) : r.id = gstdout[i].id => Eligible(r)
          /\ skipped = s
          /\ completed = k

\* the generation calls that have been dispatched and have not returned
InFlightBatches == {b \in 1..Len(pending) : pending[b].st = "running"}

\* C11: dispatching a Batch does not wait for an earlier one. While calls of
\* Batches already dispatched are in flight, a run that is reading takes the
\* next chunk when there is one and goes on to flush the last Batch when there
\* is none; nothing but the number of Batches dispatched limits the number of
\* calls in flight.
C11_DispatchNeverBlocks ==
    (gpc = "read" /\ InFlightBatches # {}) =>
        IF pos < Len(input) THEN ENABLED GRead ELSE ENABLED GEof

\* two Batches dispatched, the second while the call of the first was still
\* in flight, and both calls in flight together
C11_Witness ==
    /\ Len(pending) = 2
    /\ InFlightBatches = {1, 2}
    /\ gstdout = <<>>

\* the places on standard output of the lines of the products of batch b
LinesOf(b) ==
    {k \in 1..Len(gstdout) :
        \E i \in 1..Len(pending[b].products) :
            gstdout[k].id = pending[b].products[i].id}

\* C12: in every state of every interleaving of reading, dispatching and
\* returning calls, the lines of one Batch stand next to each other on
\* standard output, no line of another Batch between them, and follow the
\* order of the Batch's products: the first line of the Batch is for its
\* first product, the next for its second, and so on.
C12_BatchLinesContiguous ==
    \A b \in 1..Len(pending) :
        LinesOf(b) # {} =>
            LET lo == CHOOSE k \in LinesOf(b) : \A j \in LinesOf(b) : k <= j
                hi == CHOOSE k \in LinesOf(b) : \A j \in LinesOf(b) : k >= j
            IN /\ LinesOf(b) = lo..hi
               /\ \A k \in lo..hi : gstdout[k].id = pending[b].products[k - lo + 1].id

\* two Batches of more than one product written, the one dispatched second
\* first, while the run was waiting for both
C12_Witness ==
    /\ Len(pending) = 2
    /\ \A b \in 1..2 : pending[b].st = "resolved" /\ Len(pending[b].products) > 1
    /\ gstdout[1].id = pending[2].products[1].id
    /\ Len(gstdout) = Len(pending[1].products) + Len(pending[2].products)

\* C13 as stated: on standard output, every line of a Batch dispatched
\* earlier stands before every line of a Batch dispatched later.
C13_DispatchOrderOnOutput ==
    \A b1, b2 \in 1..Len(pending) :
        b1 < b2 => \A k1 \in LinesOf(b1), k2 \in LinesOf(b2) : k1 < k2

\* the ids of the first n products of batch b
IdsOf(b, n) == [i \in 1..n |-> pending[b].products[i].id]

\* C13, amended: Batches reach standard output in the order in which their
\* generation calls return. A step in which the call of a Batch returns
\* appends the lines of that Batch, in the order of its products, to the end
\* of what is already written; no other step writes, and nothing written is
\* moved or removed.
C13_CompletionOrderOnOutput ==
    [][/\ Len(gstdout') >= Len(gstdout)
       /\ SubSeq(gstdout', 1, Len(gstdout)) = gstdout
       /\ \A b \in 1..Len(pending) :
             (pending[b].st = "running" /\ pending'[b].st = "resolved") =>
                 [k \in 1..(Len(gstdout') - Len(gstdout)) |->
                     gstdout'[Len(gstdout) + k].id]
                   = IdsOf(b, Len(pending[b].products))
       /\ gstdout' # gstdout =>
             \E b \in 1..Len(pending) :
                 pending[b].st = "running" /\ pending'[b].st # "running"]_vars

\* the call of the Batch dispatched second has returned and its lines are
\* written while the call of the first Batch is still in flight
C13_Witness ==
    /\ Len(pending) = 2
    /\ pending[1].st = "running"
    /\ pending[2].st = "resolved"
    /\ Len(gstdout) = Len(pending[2].products)
    /\ Len(gstdout) > 0

Mismatched(b) ==
    pending[b].received >= 0 /\ pending[b].received # Len(pending[b].products)

\* C15 as stated: a Batch whose call returned a result array of another
\* length than the Batch has no line on standard output, its processing has
\* failed, the run does not complete, and when the process has ended it has
\* ended with code 1 and the error on the error stream.
C15_MismatchIsReportedFailure ==
    \A b \in 1..Len(pending) :
        Mismatched(b) =>
            /\ LinesOf(b) = {}
            /\ pending[b].st = "rejected"
            /\ gpc # "done"
            /\ gpc = "exit" => (gexitCode = 1 /\ gstderr # <<>>)

\* the call of batch b returned a result whose subtype is not success
NonSuccess(b) == pending[b].subtype \notin {"", "success"}

\* C16: once the call of a Batch has returned a result whose subtype is not
\* success, the error stream holds an error report that carries that subtype
\* with the message, standard output has no line for a product of that
\* Batch, the run never completes, and a process that has ended has ended
\* with exit code 1.
C16_NonSuccessFailsRun ==
    \A b \in 1..Len(pending) :
        NonSuccess(b) =>
            /\ \E r \in 1..Len(gstderr) :
                  gstderr[r].msg = <<"AI error", pending[b].subtype>>
            /\ LinesOf(b) = {}
            /\ gpc # "done"
            /\ gpc = "exit" => gexitCode = 1

\* the second of two Batches fails on a non-success subtype after the lines
\* of the first were written: the process has ended with code 1 and the
\* failure is the one line of error()
C16_Witness ==
    /\ Len(pending) = 2
    /\ pending[1].st = "resolved"
    /\ NonSuccess(2)
    /\ gpc = "exit"
    /\ gexitCode = 1
    /\ gerrLines = 1
    /\ Len(gstdout) = Len(pending[1].products)

\* C17 as stated: when the process has ended after the call of a Batch
\* failed, no dispatched Batch is still in flight: the join has waited for
\* every one of them.
C17_InFlightAwaitedBeforeExit ==
    (gpc = "exit" /\ \E b \in 1..Len(pending) : pending[b].st = "rejected") =>
        InFlightBatches = {}

\* C18 as stated, for the generator: a process that has ended on an error has
\* exit code 1 and the error stream holds that error once, written by
\* error() at the top of the run; no product is dispatched in two generation
\* calls; a run that completed has exit code 0, no error report and no failed
\* call.
C18_ErrorsReportedOnce ==
    /\ gpc = "exit" =>
          /\ gexitCode = 1
          /\ gerrLines = 1
          /\ Len(gstderr) = 1
          /\ gstderr[1].by = "error"
    /\ \A b1, b2 \in 1..Len(pending) :
          b1 # b2 =>
              \A i \in 1..Len(pending[b1].products), j \in 1..Len(pending[b2].products) :
                  pending[b1].products[i].id # pending[b2].products[j].id
    /\ gexitCode = 0 =>
          /\ gpc = "done"
          /\ gstderr = <<>>
          /\ \A b \in 1..Len(pending) : pending[b].st = "resolved"

\* the part of C18 that holds: an error that reaches run() while it awaits
\* (a malformed line, a call failing after the join) is written once by
\* error() and ends the process with code 1
C18_AwaitedErrorsReportedOnce ==
    /\ (gpc = "exit" /\ gstderr[Len(gstderr)].by = "error") =>
          /\ gexitCode = 1
          /\ gerrLines = 1
    /\ gexitCode = 0 =>
          /\ gpc = "done"
          /\ gstderr = <<>>
          /\ \A b \in 1..Len(pending) : pending[b].st = "resolved"

\* the exporter's part of C18: any failure ends the process with code 1 and
\* one line of error(); exit code 0 only for a completed run
C18_ExporterErrorsReportedOnce ==
    /\ xpc = "exit" => (exitCode = 1 /\ errLines = 1)
    /\ exitCode = 0 => (xpc = "done" /\ errLines = 0)
    /\ xpc \notin {"exit", "done"} => (exitCode = -1 /\ errLines = 0)

----------------------------------------------------------------------------
(* Properties of the shopify call *)

\* the least whole number of seconds in which restoreRate points a second
\* restore requestedQueryCost points
SecondsToRestore(cost) ==
    CHOOSE n \in 0..cost.requestedQueryCost :
        /\ n * cost.restoreRate >= cost.requestedQueryCost
        /\ \A m \in 0..(n - 1) : m * cost.restoreRate < cost.requestedQueryCost

\* the response reports a throttle status with fewer than 100 points available
LowBudget(cost) == cost.present /\ cost.currentlyAvailable < 100

\* C19: when shopify has read the body of a response without errors, it
\* waits exactly when the body reports fewer than 100 available points; the
\* wait is ceil(requestedQueryCost / restoreRate) * 1000 ms (2000 ms for cost
\* 10 at rate 5 with 50 available); while it waits its caller has not got
\* the data, and the data is handed over when the wait has elapsed.
C19_ThrottleWait ==
    [][\A c \in Callers :
          /\ (f[c].st = "json" /\ f'[c] # f[c]) =>
                /\ f'[c].st = "wait" <=> LowBudget(f[c].cost)
                /\ f'[c].st = "wait" =>
                      /\ f'[c].wait = SecondsToRestore(f[c].cost) * 1000
                      /\ f[c].cost = Cost(50, 10, 5) => f'[c].wait = 2000
                      /\ f'[c].pages = f[c].pages
                      /\ f'[c].items = f[c].items
                      /\ <<xpc, edges, stdout>>' = <<xpc, edges, stdout>>
          /\ (f[c].st = "wait" /\ f'[c] # f[c]) =>
                /\ f'[c].st # "wait"
                /\ f'[c].wait = 0
                /\ c = Products => edges' = f[c].data.nodes \/ cur' = Head(f[c].data.nodes)]_vars

\* a sub-collection loop is waiting 3000 ms on a cost of 11 at rate 5 while
\* the product loop, throttled on its own response before, has gone on
C19_Witness ==
    \E c \in Subs :
        /\ f[c].st = "wait"
        /\ f[c].cost = Cost(99, 11, 5)
        /\ f[c].wait = 3000
        /\ f[Products].pages >= 1

----------------------------------------------------------------------------
(* storefront-query and the OCAPI query: one request each *)

\* (!publicToken && !privateToken) || !apiVersion || !storeDomain is false
StorefrontEnvOk ==
    /\ ("SHOPIFY_STOREFRONT_ACCESS_TOKEN" \in env \/ "SHOPIFY_ADMIN_API_TOKEN" \in env)
    /\ "SHOPIFY_API_VERSION" \in env
    /\ "SHOPIFY_STORE_DOMAIN" \in env

\* !SFCC_HOSTNAME || !SFCC_CLIENT_ID is false; the version has a default
OcapiEnvOk == "SFCC_INSTANCE_HOSTNAME" \in env /\ "SFCC_CLIENT_ID" \in env

\* error(...); process.exit(1)
QFail(q) == [q EXCEPT !.pc = "exit", !.exitCode = 1, !.err = @ + 1]

\* an exception nothing catches: the runtime ends the process with code 1
QCrash(q) == [q EXCEPT !.pc = "exit", !.exitCode = 1]

\* success(...); console.log(JSON.stringify(result, null, 2)); the process
\* ends by itself
QDone(q) == [q EXCEPT !.pc = "done", !.exitCode = 0, !.out = @ + 1]

\* await fetch(...)
QFetch(q) == [q EXCEPT !.pc = "fetch", !.requests = @ + 1]

\* storefront-query, top level: the flag, the environment, then resolveQuery
SBoot ==
    /\ storefront.pc = "boot"
    /\ storefront' = IF "query" \notin argv THEN QFail(storefront)
                     ELSE IF ~StorefrontEnvOk THEN QFail(storefront)
                     ELSE [storefront EXCEPT !.pc = "resolve"]
    /\ UNCHANGED <<xvars, gvars, argv, variablesArg, ocapi>>

\* resolveQuery returns; JSON.parse of --variables; executeQuery issues the request
SResolve ==
    /\ storefront.pc = "resolve"
    /\ storefront' = IF variablesArg = "invalid" THEN QCrash(storefront)
                     ELSE QFetch(storefront)
    /\ UNCHANGED <<xvars, gvars, argv, variablesArg, ocapi>>

\* fetch() resolves with the status line of the response
SRespond ==
    /\ storefront.pc = "fetch"
    /\ \E ok \in BOOLEAN :
          storefront' = [storefront EXCEPT !.pc = IF ok THEN "json" ELSE "text"]
    /\ UNCHANGED <<xvars, gvars, argv, variablesArg, ocapi>>

\* response.text() resolves: throw, caught by the try around executeQuery
STextDone ==
    /\ storefront.pc = "text"
    /\ storefront' = QFail(storefront)
    /\ UNCHANGED <<xvars, gvars, argv, variablesArg, ocapi>>

\* response.json() resolves: with errors it throws, with data it returns
SJson ==
    /\ storefront.pc = "json"
    /\ \E errors \in BOOLEAN :
          storefront' = IF errors THEN QFail(storefront) ELSE QDone(storefront)
    /\ UNCHANGED <<xvars, gvars, argv, variablesArg, ocapi>>

\* the OCAPI query, top level: the flag, the environment, then ocapi() issues
\* the request
OBoot ==
    /\ ocapi.pc = "boot"
    /\ ocapi' = IF "path" \notin argv THEN QFail(ocapi)
                ELSE IF ~OcapiEnvOk THEN QFail(ocapi)
                ELSE QFetch(ocapi)
    /\ UNCHANGED <<xvars, gvars, argv, variablesArg, storefront>>

\* fetch() resolves with the status line of the response
ORespond ==
    /\ ocapi.pc = "fetch"
    /\ \E ok \in BOOLEAN :
          ocapi' = [ocapi EXCEPT !.pc = IF ok THEN "json" ELSE "text"]
    /\ UNCHANGED <<xvars, gvars, argv, variablesArg, storefront>>

\* res.text() resolves: throw new Error(`OCAPI ...`), caught by the try
OTextDone ==
    /\ ocapi.pc = "text"
    /\ ocapi' = QFail(ocapi)
    /\ UNCHANGED <<xvars, gvars, argv, variablesArg, storefront>>

\* res.json() resolves with the result, or rejects on a body that is not JSON
OJson ==
    /\ ocapi.pc = "json"
    /\ \E parsed \in BOOLEAN :
          ocapi' = IF parsed THEN QDone(ocapi) ELSE QFail(ocapi)
    /\ UNCHANGED <<xvars, gvars, argv, variablesArg, storefront>>

\* each of the three scripts started once in the same environment
InitStartup ==
    /\ GOff
    /\ XInit
    /\ env \in SUBSET AllEnv
    /\ argv \in SUBSET {"query", "path"}
    /\ variablesArg \in {"none", "valid", "invalid"}
    /\ storefront = QScript("boot")
    /\ ocapi = QScript("boot")

\* the exporter up to its first request, the two query scripts to their end
NextStartup ==
    \/ XBoot
    \/ SBoot
    \/ SResolve
    \/ SRespond
    \/ STextDone
    \/ SJson
    \/ OBoot
    \/ ORespond
    \/ OTextDone
    \/ OJson

SpecStartup == InitStartup /\ [][NextStartup]_vars

\* requests the exporter has issued
ExporterRequests == f[Products].nreq

\* C20: each script checks its environment before it issues a request. With
\* SHOPIFY_ADMIN_API_TOKEN, SHOPIFY_API_VERSION or SHOPIFY_STORE_DOMAIN
\* missing the exporter has issued no request and its first step ends it with
\* exit code 1; the same for storefront-query when both tokens, the version
\* or the domain are missing, and for the OCAPI query when the hostname or
\* the client id is missing.
C20_EnvValidatedBeforeNetwork ==
    /\ (\E v \in {"SHOPIFY_ADMIN_API_TOKEN", "SHOPIFY_API_VERSION",
                   "SHOPIFY_STORE_DOMAIN"} : v \notin env) =>
          /\ \A c \in Callers : f[c].nreq = 0
          /\ xpc \in {"boot", "exit"}
          /\ xpc = "exit" => (exitCode = 1 /\ errLines = 1)
    /\ (\/ {"SHOPIFY_STOREFRONT_ACCESS_TOKEN", "SHOPIFY_ADMIN_API_TOKEN"} \cap env = {}
        \/ "SHOPIFY_API_VERSION" \notin env
        \/ "SHOPIFY_STORE_DOMAIN" \notin env) =>
          /\ storefront.requests = 0
          /\ storefront.pc \in {"boot", "exit"}
          /\ storefront.pc = "exit" => (storefront.exitCode = 1 /\ storefront.err = 1)
    /\ (\E v \in {"SFCC_INSTANCE_HOSTNAME", "SFCC_CLIENT_ID"} : v \notin env) =>
          /\ ocapi.requests = 0
          /\ ocapi.pc \in {"boot", "exit"}
          /\ ocapi.pc = "exit" => (ocapi.exitCode = 1 /\ ocapi.err = 1)

\* all three scripts, given their flags, have ended with code 1 and without a
\* request in an environment where one variable of each is missing
C20_Witness ==
    /\ env = AllEnv \ {"SHOPIFY_STORE_DOMAIN", "SFCC_CLIENT_ID"}
    /\ argv = {"query", "path"}
    /\ xpc = "exit" /\ exitCode = 1 /\ ExporterRequests = 0
    /\ storefront.pc = "exit" /\ storefront.exitCode = 1 /\ storefront.requests = 0
    /\ ocapi.pc = "exit" /\ ocapi.exitCode = 1 /\ ocapi.requests = 0

----------------------------------------------------------------------------
(* The sink contract of the two pipelines *)

\* a run of either pipeline: the exporter or the generator
InitPipelines == InitExport \/ InitGen

NextPipelines ==
    \/ XBoot
    \/ \E c \in Callers : Respond(c)
    \/ \E c \in Callers : TextDone(c)
    \/ \E c \in Callers : JsonErrors(c)
    \/ \E c \in Callers : JsonData(c)
    \/ \E c \in Callers : WaitDone(c)
    \/ GRead
    \/ GEof
    \/ \E b \in 1..Len(pending) : BatchDone(b)
    \/ \E b \in 1..Len(pending) : BatchFail(b)

SpecPipelines == InitPipelines /\ [][NextPipelines]_vars

\* the keys of a Record line of the exporter and of a result line of the
\* generator
RecordKeys == {"product", "metafields", "variants", "media"}
ResultKeys == {"id", "handle", "title", "description", "longDescription"}

\* what the scripts write as progress
ProgressMessages ==
    {"Starting product export", "Throttled", "products exported", "done",
     "Reading products from stdin", "dispatching batch", "Starting batch",
     "products to generate", "n/total descriptions generated", "Cost",
     "descriptions generated"}

\* C21: in every state of a run of either pipeline, failing runs included,
\* standard output holds nothing but whole lines, one per write: every entry
\* of the exporter's output is one Record with its product and its three
\* collections, one entry per exported product, every entry of the
\* generator's output is one result with its five fields; no progress
\* message and no error message is among them, those are on the error
\* stream only.
C21_StdoutHoldsOnlyRecords ==
    /\ \A i \in 1..Len(stdout) : DOMAIN stdout[i] = RecordKeys
    /\ Len(stdout) = total
    /\ \A i \in 1..Len(gstdout) : DOMAIN gstdout[i] = ResultKeys
    /\ xlog \cup glog \subseteq ProgressMessages
    /\ xpc = "exit" => errLines = 1
    /\ gpc = "exit" => gstderr # <<>>

\* an export that failed after it was throttled and had written a Record:
\* the Record is on standard output, the progress and the error are not
C21_Witness ==
    /\ xpc = "exit"
    /\ Len(stdout) >= 1
    /\ errLines = 1
    /\ "Throttled" \in xlog

\* the remote catalogue has no variant, no media and no metafield for product p
NoSubResources(p) ==
    /\ Collection("variants", p) = <<>>
    /\ Collection("media", p) = <<>>
    /\ Collection("metafields", p) = <<>>

\* C22: the line of a product that has no variant, no media and no metafield
\* is the product itself with the three keys metafields, variants and media,
\* each bound to the empty list; none of the keys is missing.
C22_EmptySubCollections ==
    \A i \in 1..Len(stdout) :
        NoSubResources(stdout[i].product.id) =>
            /\ DOMAIN stdout[i] = {"product", "metafields", "variants", "media"}
            /\ stdout[i].product = Node("product", stdout[i].product.id)
            /\ stdout[i].metafields = <<>>
            /\ stdout[i].variants = <<>>
            /\ stdout[i].media = <<>>

\* the line of the product without sub-resources is written, after the
\* lines of two products that have some
C22_Witness ==
    /\ Len(stdout) = NumProducts
    /\ \E i \in 1..Len(stdout) :
          /\ NoSubResources(stdout[i].product.id)
          /\ stdout[i].variants = <<>>
    /\ \E i \in 1..Len(stdout) : ~NoSubResources(stdout[i].product.id)

\* a throttle wait is pending and its timer does not fire in this step
ThrottlePending == \E c \in Callers : f[c].st = "wait" /\ f'[c].st = "wait"

\* C23 as stated: while a throttle wait is pending, no step of the exporter
\* issues a request.
C23_ThrottleStopsAllRequests ==
    [][ThrottlePending => \A c \in Callers : ~Issues(c)]_vars

\* C23, amended: the wait delays the next request of the call that is
\* throttled and of nothing else. A loop whose response reported fewer than
\* 100 points does not issue its next request on reading it, and issues none
\* while its own wait is pending; while the product page's call waits,
\* nothing is in flight and no request is issued at all. A loop running
\* beside a waiting one is not held back.
C23_ThrottleDelaysOwnLoop ==
    [][\A c \in Callers :
          /\ (f[c].st = "json" /\ LowBudget(f[c].cost) /\ xpc' # "exit") =>
                (f'[c] = f[c] \/ f'[c].st = "wait")
          /\ (f[c].st = "wait" /\ f'[c].st = "wait") => f'[c].nreq = f[c].nreq
          /\ (f[Products].st = "wait" /\ f'[Products].st = "wait") =>
                f'[c].nreq = f[c].nreq]_vars

\* the variants loop waits on its throttled first page while the media loop
\* beside it has its second request in flight
C23_Witness ==
    /\ f[Variants].st = "wait"
    /\ f[Variants].nreq = 1
    /\ f[Media].st = "fetch"
    /\ f[Media].nreq = 2

\* fetchAllPages is entered for caller c in this step: its first request goes out
Starts(c) == Issues(c) /\ f'[c].nreq = 1

\* C24, the starts: the variants, media and product-metafields loops of a
\* Record are started in one step, before any of them is awaited, all for the
\* Record the for loop has just taken; the per-variant metafield loops are
\* started in one step, one for every variant of the Record and for no other
\* index, and only once the variants loop (with the other two) has returned
\* the complete variant list.
C24_SubFetchesStartTogether ==
    [][/\ (\E c \in Subs : Starts(c)) =>
             /\ \A d \in Subs : Starts(d) /\ f'[d].owner = cur'.id
             /\ \A v \in VmfCallers : f'[v].st = "idle"
       /\ (\E v \in VmfCallers : Starts(v)) =>
             /\ \A d \in Subs : f'[d].st = "done" /\ f'[d].owner = cur.id
             /\ cur' = cur
             /\ f'[Variants].items = Collection("variants", cur.id)
             /\ \A j \in 1..MaxVariants :
                   Starts(Vmf(j)) <=> j <= Len(f'[Variants].items)
             /\ \A j \in 1..Len(f'[Variants].items) :
                   f'[Vmf(j)].owner = f'[Variants].items[j].id]_vars

\* a fetch loop of the running process that has not returned yet
Live(c) == xpc # "exit" /\ InFlight(c)

\* C24, the ownership: the sub-resource fetches in flight at any moment all
\* belong to the Record in hand; the three loops of the first stage are in
\* flight only in that stage and the per-variant loops only in the second,
\* for variants of that Record; the product page loop has no request out
\* while a Record is being resolved.
C24_InFlightBelongToOneRecord ==
    /\ \A c \in Subs : Live(c) => xpc = "subs" /\ f[c].owner = cur.id
    /\ \A j \in 1..MaxVariants :
          Live(Vmf(j)) =>
             /\ xpc = "vmf"
             /\ j <= VariantCount(cur.id)
             /\ f[Vmf(j)].owner = 10 * cur.id + j
    /\ (\E c \in Subs \cup VmfCallers : Live(c)) => ~Live(Products)

\* C24: concurrent sub-resource fetches, per Record
C24_SubFetchesConcurrentPerRecord ==
    [](C24_InFlightBelongToOneRecord) /\ C24_SubFetchesStartTogether

\* both per-variant metafield loops of the first Record are in flight at once,
\* after its three sub-collection loops have returned
C24_Witness ==
    /\ xpc = "vmf"
    /\ VariantCount(cur.id) >= 2
    /\ \A j \in 1..VariantCount(cur.id) : f[Vmf(j)].st = "fetch" /\ f[Vmf(j)].nreq = 1
    /\ \A c \in Subs : f[c].st = "done" /\ f[c].owner = cur.id

\* the Records of input[from+1..to], in input order
RECURSIVE RecordsBetween(_, _)
RecordsBetween(from, to) ==
    IF to <= from THEN <<>>
    ELSE RecordsBetween(from, to - 1)
         \o (IF IsRecord(input[to]) THEN <<RecordOf(input[to])>> ELSE <<>>)

\* the positions of the Records whose lines this step consumes
Consumes == {j \in (Processed + 1)..Processed' : IsRecord(input[j])}

\* those of them that the filter skips
Skips == {j \in Consumes : ~Eligible(RecordOf(input[j]))}

\* C25: a skip adds exactly one to skipped and changes nothing else. In every
\* step skipped grows by the number of Records skipped in it; a step that
\* consumes only skipped Records leaves the open batch, the dispatched
\* Batches, total and the output as they were; in any step total grows by the
\* number of Records selected, the selected Records are appended as they were
\* parsed, and no skipped Record is in the open batch or in a dispatched Batch.
C25_SkipChangesOnlySkipped ==
    [][/\ skipped' = skipped + Cardinality(Skips)
       /\ (Skips # {} /\ Consumes = Skips) =>
             /\ batch' = batch
             /\ pending' = pending
             /\ gtotal' = gtotal
             /\ gstdout' = gstdout /\ completed' = completed
       /\ gtotal' = gtotal + Cardinality(Consumes \ Skips)
       /\ pos' # pos =>
             Flatten(pending') \o batch'
                = Flatten(pending) \o batch
                  \o SelectSeq(RecordsBetween(Processed, Processed'), Eligible)
       /\ \A j \in Skips :
             RecordOf(input[j]) \notin Range(Flatten(pending') \o batch')]_vars

\* Records have been skipped between Records that stand in the open batch,
\* and total counts the latter only
C25_Witness ==
    /\ gpc = "read"
    /\ skipped >= 2
    /\ Len(batch) >= 2
    /\ gtotal = Len(batch)
    /\ \E i, j, k \in 1..Processed :
          /\ i < j /\ j < k
          /\ IsRecord(input[i]) /\ RecordOf(input[i]) \in Range(batch)
          /\ IsRecord(input[j]) /\ ~Eligible(RecordOf(input[j]))
          /\ IsRecord(input[k]) /\ RecordOf(input[k]) \in Range(batch)

\* the cost and token figures of the batches tasks, summed
RECURSIVE UsageSum(_)
UsageSum(tasks) ==
    IF tasks = <<>> THEN [cost |-> 0, input |-> 0, output |-> 0]
    ELSE LET rest == UsageSum(SubSeq(tasks, 1, Len(tasks) - 1))
             n == Len(tasks[Len(tasks)].products)
         IN [cost |-> rest.cost + CostOf(n),
             input |-> rest.input + InputTokensOf(n),
             output |-> rest.output + OutputTokensOf(n)]

CountersAgree ==
    /\ completed = Len(gstdout)
    /\ completed <= gtotal
    /\ gpc = "done" =>
          /\ completed = gtotal
          /\ totalCost = UsageSum(pending).cost
          /\ totalInput = UsageSum(pending).input
          /\ totalOutput = UsageSum(pending).output

\* C26 as stated: under every interleaving of batch completions, completed
\* equals the number of lines on standard output and is at most total in
\* every reachable state, and when the join succeeds completed equals total
\* and the cost and token totals are the sums over all Batches.
C26_CountersLoseNoUpdate == CountersAgree

\* a Batch whose result array was shorter than the Batch
ShortResult(b) ==
    pending[b].received >= 0 /\ pending[b].received < Len(pending[b].products)

\* C26 where every result array has an entry for every product of its Batch:
\* the counters agree in every reachable state.
C26_CountersAgreeOnFullResults ==
    (\A b \in 1..Len(pending) : ~ShortResult(b)) => CountersAgree

\* both Batches of a run have returned in full and the run is done
C26_FullResultsWitness ==
    /\ gpc = "done"
    /\ Len(pending) = 2
    /\ completed = BATCH_SIZE + Len(pending[2].products)
    /\ totalInput = InputTokensOf(completed)

\* the position of the last newline of text[1..upto], 0 if there is none
RECURSIVE LastNL(_, _)
LastNL(text, upto) ==
    IF upto = 0 THEN 0 ELSE IF text[upto] = NL THEN upto ELSE LastNL(text, upto - 1)

\* the read loop has thrown on a line that is not JSON
ParseFailed == \E r \in 1..Len(gstderr) : gstderr[r].msg = SyntaxErrorMsg

EndsWithNL(text) == text = <<>> \/ text[Len(text)] = NL

\* C27: what the reader has parsed is a function of the input and of the
\* number of bytes delivered, not of how they were cut into chunks. After pos
\* bytes, however split, the carry-over buffer is the text after the last
\* newline delivered, the Records selected are the eligible Records of the
\* lines before it in input order, cut into Batches of 20 as they fill, and
\* skipped counts the others; when an input whose lines all end with a
\* newline has been delivered whole, these are the Records of the whole input.
C27_ReaderIgnoresChunkBoundaries ==
    LET recs == RecordsIn(input, Processed)
        sel == SelectSeq(recs, Eligible)
    IN /\ buffer = SubSeq(input, Processed + 1, pos)
       /\ ~ParseFailed =>
             /\ Processed = LastNL(input, pos)
             /\ gpc # "exit" => Selected = sel
             /\ skipped = Len(recs) - Len(sel)
             /\ gtotal = Len(sel)
             /\ gpc = "read" =>
                   /\ Len(pending) = Len(sel) \div BATCH_SIZE
                   /\ Len(batch) = Len(sel) % BATCH_SIZE
                   /\ \A b \in 1..Len(pending) :
                         pending[b].products
                            = SubSeq(sel, BATCH_SIZE * (b - 1) + 1, BATCH_SIZE * b)
             /\ (pos = Len(input) /\ EndsWithNL(input)) =>
                   recs = RecordsIn(input, Len(input))

\* a chunk has ended in the middle of a line, after lines that were selected
\* and skipped, and the input goes on to fill a Batch
C27_Witness ==
    /\ gpc = "read"
    /\ EndsWithNL(input)
    /\ buffer # <<>>
    /\ Len(buffer) < 3
    /\ Len(batch) >= 1
    /\ skipped >= 1
    /\ pos < Len(input)

\* the number of lines of text from position at on that hold a character
\* that is not whitespace, the last line counted with or without its newline;
\* open tells whether the line at stands in has shown such a character
RECURSIVE NonBlankLines(_, _, _)
NonBlankLines(text, at, open) ==
    IF at > Len(text) THEN (IF open THEN 1 ELSE 0)
    ELSE IF text[at] = NL
    THEN (IF open THEN 1 ELSE 0) + NonBlankLines(text, at + 1, FALSE)
    ELSE NonBlankLines(text, at + 1, open \/ text[at] \notin Whitespace)

StreamEnded == gpc \in {"join", "done"}

\* C28 as stated: when the stream has ended, total plus skipped is the number
\* of non-blank lines of the input, a last line without a newline included.
C28_EveryLineAccounted ==
    StreamEnded => gtotal + skipped = NonBlankLines(input, 1, FALSE)

\* C28 for the lines that end with a newline: when the stream has ended,
\* total plus skipped is the number of non-blank lines before the last
\* newline; what stands after it is still in the buffer and was never parsed.
C28_TerminatedLinesAccounted ==
    StreamEnded =>
       /\ gtotal + skipped = NonBlankLines(SubSeq(input, 1, LastNL(input, Len(input))), 1, FALSE)
       /\ buffer = SubSeq(input, LastNL(input, Len(input)) + 1, Len(input))

\* the stream has ended with an unterminated Record line left in the buffer
C28_UnterminatedWitness ==
    /\ StreamEnded
    /\ buffer # <<>>
    /\ ValidJson(Trim(buffer))
    /\ gtotal + skipped + 1 = NonBlankLines(input, 1, FALSE)

====
